---- MODULE Spec2Model ----
(***************************************************************************)
(* The statistical engine of the A/B testing tool                          *)
(* (src/utils/abTestingUtils.ts): validateInputs, calculateSampleSize,     *)
(* analyzeResults and sequentialAnalysis, driven by a caller that invokes  *)
(* them with arbitrary arguments drawn from small grids (Spec), and the    *)
(* setTimeout-based UI component that calls the engine from its handlers   *)
(* (src/unnamed/part_001, SpecUI).                                         *)
(*                                                                         *)
(* Numbers.  A JavaScript number is modelled as a record [t, v]: t = "fin" *)
(* with v a fixed-point integer, t = "nan", or t = "inf" with v the sign.  *)
(* Probabilities handed to validateInputs / calculateSampleSize are in     *)
(* hundredths (baselineRate, confidence, power) and twentieths (mde);      *)
(* the quantities analyzeResults computes are in thousandths.              *)
(***************************************************************************)
EXTENDS Integers, Sequences, FiniteSets, TLC

VARIABLES
    op,        \* the engine function called last ("none" before any call)
    args,      \* the arguments of that call
    ret,       \* its outcome: [kind, value], kind in none/running/return/throw
    size,      \* sequentialAnalysis: the loop variable `size`
    results,   \* sequentialAnalysis: the local array `results`
    \* the useState cells of the component ABTestingFramework
    params,            \* [baselineRate, mde, confidence, power]
    sampleSize,
    uiResults,         \* the cell `results`: <<>> for null, else <<the record>>
    sequentialData,
    activeTab,
    errors,            \* [baselineRate, mde, confidence, power, form]
    isCalculating,
    isRunningTest,
    isLoadingResults,
    timers             \* the params captured by each pending setTimeout callback

engineVars == <<op, args, ret, size, results>>

uiVars == <<params, sampleSize, uiResults, sequentialData, activeTab, errors,
            isCalculating, isRunningTest, isLoadingResults, timers>>

vars == <<op, args, ret, size, results, params, sampleSize, uiResults,
          sequentialData, activeTab, errors, isCalculating, isRunningTest,
          isLoadingResults, timers>>

----------------------------------------------------------------------------
(* Bounds of the model *)

\* longest observation sequence handed to analyzeResults / sequentialAnalysis
MaxLen == 3

\* number of loop iterations after which a sequentialAnalysis call that is
\* still running is no longer followed
MaxIter == 5

\* length of the long all-zeros / all-ones sequences handed to analyzeResults
LongRun == 100

\* largest sampleSize for which the simulated test of runTest is followed
MaxSample == 20

----------------------------------------------------------------------------
(* Representation of numbers *)

\* unit of baselineRate, confidence and power: 1/100
RateScale == 100

\* unit of mde: 1/20
MdeScale == 20

\* unit of the z values used by calculateSampleSize: 1/20
ZScale == 20

\* unit of the numbers computed by analyzeResults: 1/1000
Milli == 1000

Fin(x) == [t |-> "fin", v |-> x]
NaN == [t |-> "nan", v |-> 0]
Inf(s) == [t |-> "inf", v |-> s]

IsFin(a) == a.t = "fin"
IsNaN(a) == a.t = "nan"
IsInf(a) == a.t = "inf"

Abs(x) == IF x < 0 THEN -x ELSE x
Sgn(x) == IF x < 0 THEN -1 ELSE IF x > 0 THEN 1 ELSE 0
Min(x, y) == IF x <= y THEN x ELSE y
Max(x, y) == IF x >= y THEN x ELSE y

\* n / d rounded to the nearest integer, d > 0 (the rounding of a float result)
RoundDiv(n, d) == Sgn(n) * ((2 * Abs(n) + d) \div (2 * d))

\* Math.ceil(n / d), d > 0
CeilDiv(n, d) == -((-n) \div d)

RECURSIVE SqrtSearch(_, _, _)
SqrtSearch(x, lo, hi) ==
    IF lo >= hi THEN lo
    ELSE LET mid == (lo + hi + 1) \div 2
         IN IF mid * mid <= x THEN SqrtSearch(x, mid, hi)
            ELSE SqrtSearch(x, lo, mid - 1)

\* floor of the square root of a natural number
ISqrt(x) == SqrtSearch(x, 0, Min(x, 46340))

JsNeg(a) == IF IsNaN(a) THEN NaN ELSE [t |-> a.t, v |-> -a.v]

JsAdd(a, b) ==
    IF IsNaN(a) \/ IsNaN(b) THEN NaN
    ELSE IF IsInf(a) /\ IsInf(b) THEN (IF a.v = b.v THEN a ELSE NaN)
    ELSE IF IsInf(a) THEN a
    ELSE IF IsInf(b) THEN b
    ELSE Fin(a.v + b.v)

JsSub(a, b) == JsAdd(a, JsNeg(b))

JsMul(a, b) ==
    IF IsNaN(a) \/ IsNaN(b) THEN NaN
    ELSE IF IsInf(a) \/ IsInf(b)
         THEN (IF a.v = 0 \/ b.v = 0 THEN NaN ELSE Inf(Sgn(a.v) * Sgn(b.v)))
    ELSE Fin(RoundDiv(a.v * b.v, Milli))

JsDiv(a, b) ==
    IF IsNaN(a) \/ IsNaN(b) THEN NaN
    ELSE IF IsInf(a) THEN (IF IsInf(b) THEN NaN
                           ELSE Inf(a.v * (IF b.v < 0 THEN -1 ELSE 1)))
    ELSE IF IsInf(b) THEN Fin(0)
    ELSE IF b.v = 0 THEN (IF a.v = 0 THEN NaN ELSE Inf(Sgn(a.v)))
    ELSE Fin(Sgn(b.v) * RoundDiv(a.v * Milli, Abs(b.v)))

JsSqrt(a) ==
    IF IsNaN(a) THEN NaN
    ELSE IF IsInf(a) THEN (IF a.v > 0 THEN a ELSE NaN)
    ELSE IF a.v < 0 THEN NaN
    ELSE Fin(ISqrt(a.v * Milli))

JsAbs(a) == IF IsNaN(a) THEN NaN ELSE [t |-> a.t, v |-> Abs(a.v)]

\* a < b; every comparison with NaN is false
JsLt(a, b) ==
    IF IsNaN(a) \/ IsNaN(b) THEN FALSE
    ELSE IF IsInf(a) THEN a.v < 0 /\ ~(IsInf(b) /\ b.v < 0)
    ELSE IF IsInf(b) THEN b.v > 0
    ELSE a.v < b.v

\* an integer as a number in thousandths
Int2Js(n) == Fin(n * Milli)

----------------------------------------------------------------------------
(* jstat.normal: the standard normal distribution *)

\* 1000 * Phi(i / 10) for i = 0 .. 40
NormalCdfTable ==
    <<500, 540, 579, 618, 655, 691, 726, 758, 788, 816,
      841, 864, 885, 903, 919, 933, 945, 955, 964, 971,
      977, 982, 986, 989, 992, 994, 995, 997, 997, 998,
      999, 999, 999, 1000, 1000, 1000, 1000, 1000, 1000, 1000, 1000>>

\* jstat.normal.cdf(x, 0, 1) for a number x >= 0 in thousandths
NormalCdf(x) ==
    IF IsNaN(x) THEN NaN
    ELSE IF IsInf(x) THEN (IF x.v > 0 THEN Fin(Milli) ELSE Fin(0))
    ELSE LET i == (Abs(x.v) + 50) \div 100
             up == IF i >= 40 THEN Milli ELSE NormalCdfTable[i + 1]
         IN Fin(IF x.v >= 0 THEN up ELSE Milli - up)

\* 1000 * Phi^-1(p / 1000) for p = 500, 505, .. 995
NormalInvTable ==
    <<0, 13, 25, 38, 50, 63, 75, 88, 100, 113,
      126, 138, 151, 164, 176, 189, 202, 215, 228, 240,
      253, 266, 279, 292, 305, 319, 332, 345, 358, 372,
      385, 399, 412, 426, 440, 454, 468, 482, 496, 510,
      524, 539, 553, 568, 583, 598, 613, 628, 643, 659,
      674, 690, 706, 722, 739, 755, 772, 789, 806, 824,
      842, 860, 878, 896, 915, 935, 954, 974, 994, 1015,
      1036, 1058, 1080, 1103, 1126, 1150, 1175, 1200, 1227, 1254,
      1282, 1311, 1341, 1372, 1405, 1440, 1476, 1514, 1555, 1598,
      1645, 1695, 1751, 1812, 1881, 1960, 2054, 2170, 2326, 2576>>

\* jstat.normal.inv(p, 0, 1) in thousandths, p in thousandths (a multiple
\* of 5); erfcinv clamps to -100 / 100 outside (0, 2), which yields
\* -/+ 141.421 for p <= 0 and p >= 1
NormalInv(p) ==
    IF p >= 1000 THEN 141421
    ELSE IF p <= 0 THEN -141421
    ELSE IF p >= 500 THEN NormalInvTable[(p - 500) \div 5 + 1]
    ELSE -NormalInvTable[(500 - p) \div 5 + 1]

\* 1 - (1 - confidence) / 2 in thousandths, confidence in hundredths
TwoSidedQuantile(confidence) == 500 + 5 * confidence

----------------------------------------------------------------------------
(* validateInputs *)

Null == "null"

MsgBaseline == "Baseline rate must be between 0 and 1"
MsgMde == "Minimum detectable effect must be between 0 and 1"
MsgConfidence == "Confidence level must be between 0.8 and 1"
MsgPower == "Statistical power must be between 0.8 and 1"

\* src/utils/abTestingUtils.ts validateInputs with two checks in the wrong order
validateInputsReordered(baselineRate, mde, confidence, power) ==
    IF mde <= 0 \/ mde >= MdeScale THEN MsgMde
    ELSE IF baselineRate <= 0 \/ baselineRate >= RateScale THEN MsgBaseline
    ELSE IF confidence <= 80 \/ confidence >= RateScale THEN MsgConfidence
    ELSE IF power <= 80 \/ power >= RateScale THEN MsgPower
    ELSE Null

\* validateInputs with the inclusive bounds of the other statistics module
validateInputsInclusive(baselineRate, mde, confidence, power) ==
    IF baselineRate < 0 \/ baselineRate > RateScale THEN MsgBaseline
    ELSE IF mde < 0 \/ mde > MdeScale THEN MsgMde
    ELSE IF confidence < 80 \/ confidence > RateScale THEN MsgConfidence
    ELSE IF power < 80 \/ power > RateScale THEN MsgPower
    ELSE Null

validateInputs(baselineRate, mde, confidence, power) ==
    IF baselineRate <= 0 \/ baselineRate >= RateScale THEN MsgBaseline
    ELSE IF mde <= 0 \/ mde >= MdeScale THEN MsgMde
    ELSE IF confidence <= 80 \/ confidence >= RateScale THEN MsgConfidence
    ELSE IF power <= 80 \/ power >= RateScale THEN MsgPower
    ELSE Null

(* validateInputs of the second statistics module, src/unnamed/part_000 *)

MsgStatValue == "Value must be between 0 and 1"
MsgStatMde == "MDE must be between 0 and 1"
MsgStatConfidence == "Confidence must be between 0.8 and 1"
MsgStatPower == "Power must be between 0.8 and 1"

\* that function with the mde check ahead of the value check
statisticsValidateInputsReordered(value, mde, confidence, power) ==
    IF mde < 0 \/ mde > MdeScale THEN MsgStatMde
    ELSE IF value < 0 \/ value > RateScale THEN MsgStatValue
    ELSE IF confidence < 80 \/ confidence > RateScale THEN MsgStatConfidence
    ELSE IF power < 80 \/ power > RateScale THEN MsgStatPower
    ELSE Null

\* part_000 lines 66-85
statisticsValidateInputs(value, mde, confidence, power) ==
    IF value < 0 \/ value > RateScale THEN MsgStatValue
    ELSE IF mde < 0 \/ mde > MdeScale THEN MsgStatMde
    ELSE IF confidence < 80 \/ confidence > RateScale THEN MsgStatConfidence
    ELSE IF power < 80 \/ power > RateScale THEN MsgStatPower
    ELSE Null

----------------------------------------------------------------------------
(* calculateSampleSize *)

Return(x) == [kind |-> "return", value |-> x]
Throw(msg) == [kind |-> "throw", value |-> msg]

\* lines 36-46: the closed form, evaluated exactly on the scaled integers.
\* With p1 = a/RateScale and mde = m/MdeScale:
\*   p2 - p1      = a*m / (RateScale*MdeScale)
\*   pPooled      = a*(2*MdeScale + m) / (2*RateScale*MdeScale)
\*   1 - pPooled  = (2*RateScale*MdeScale - a*(2*MdeScale + m)) / (2*RateScale*MdeScale)
\* so sampleSize  = (2*MdeScale + m) * (2*RateScale*MdeScale - a*(2*MdeScale + m)) * Z^2
\*                  / (2 * a * m^2 * ZScale^2),   Z = (zAlpha + zBeta) * ZScale
SampleSizeFormula(baselineRate, mde, confidence, power) ==
    LET zAlpha == RoundDiv(NormalInv(TwoSidedQuantile(confidence)) * ZScale, Milli)
        zBeta == RoundDiv(NormalInv(10 * power) * ZScale, Milli)
        z == zAlpha + zBeta
        num == (2 * MdeScale + mde)
               * (2 * RateScale * MdeScale - baselineRate * (2 * MdeScale + mde))
               * z * z
        den == 2 * baselineRate * mde * mde * ZScale * ZScale
    IN IF den = 0 THEN (IF num = 0 THEN NaN ELSE Inf(Sgn(num)))
       ELSE Fin(CeilDiv(Sgn(den) * num, Abs(den)))

\* calculateSampleSize validating with the arguments in the wrong order
calculateSampleSizeSwapped(baselineRate, mde, confidence, power) ==
    LET validationError ==
            IF mde <= 0 \/ mde >= MdeScale THEN MsgBaseline
            ELSE IF baselineRate <= 0 \/ baselineRate >= RateScale THEN MsgMde
            ELSE validateInputs(baselineRate, mde, confidence, power)
    IN IF validationError # Null THEN Throw(validationError)
       ELSE Return(SampleSizeFormula(baselineRate, mde, confidence, power))

calculateSampleSize(baselineRate, mde, confidence, power) ==
    LET validationError == validateInputs(baselineRate, mde, confidence, power)
    IN IF validationError # Null THEN Throw(validationError)
       ELSE Return(SampleSizeFormula(baselineRate, mde, confidence, power))

----------------------------------------------------------------------------
(* analyzeResults *)

MsgInconclusive == "The test results are inconclusive."
MsgVariantWins == "The variant outperformed the control group significantly."
MsgControlWins == "The control group outperformed the variant significantly."

RECURSIVE SumRange(_, _, _)
\* data[lo] + ... + data[hi], the range halved to keep the evaluation shallow
SumRange(data, lo, hi) ==
    IF lo > hi THEN 0
    ELSE IF lo = hi THEN data[lo]
    ELSE LET mid == (lo + hi) \div 2
         IN SumRange(data, lo, mid) + SumRange(data, mid + 1, hi)

\* data.reduce((sum, val) => sum + val, 0)
Sum(data) == SumRange(data, 1, Len(data))

\* the interval with the variance in place of the standard error (no sqrt)
WaldIntervalNoSqrt(rate, zAlpha, n) ==
    LET half == JsMul(zAlpha, JsDiv(JsMul(rate, JsSub(Int2Js(1), rate)), n))
    IN <<JsSub(rate, half), JsAdd(rate, half)>>

\* [rate - zAlpha * sqrt(rate * (1 - rate) / n), rate + zAlpha * sqrt(...)]
WaldInterval(rate, zAlpha, n) ==
    LET half == JsMul(zAlpha,
                      JsSqrt(JsDiv(JsMul(rate, JsSub(Int2Js(1), rate)), n)))
    IN <<JsSub(rate, half), JsAdd(rate, half)>>

\* the significance test with the comparison turned around
SignificantInverted(pValue, confidence) ==
    JsLt(JsSub(Int2Js(1), Fin(10 * confidence)), pValue)

\* line 77: pValue < (1 - confidence), confidence in hundredths
Significant(pValue, confidence) ==
    JsLt(pValue, JsSub(Int2Js(1), Fin(10 * confidence)))

\* the conclusion with the two outperformed texts exchanged
ConclusionSwapped(significant, controlConv, variantConv) ==
    IF significant
    THEN (IF JsLt(controlConv, variantConv) THEN MsgControlWins ELSE MsgVariantWins)
    ELSE MsgInconclusive

\* lines 78-83
Conclusion(significant, controlConv, variantConv) ==
    IF significant
    THEN (IF JsLt(controlConv, variantConv) THEN MsgVariantWins ELSE MsgControlWins)
    ELSE MsgInconclusive

\* confidence in hundredths; every number of the record is in thousandths
analyzeResults(controlData, variantData, confidence) ==
    LET controlConv == JsDiv(Int2Js(Sum(controlData)), Int2Js(Len(controlData)))
        variantConv == JsDiv(Int2Js(Sum(variantData)), Int2Js(Len(variantData)))
        n1 == Int2Js(Len(controlData))
        n2 == Int2Js(Len(variantData))
        pPooled == JsDiv(Int2Js(Sum(controlData) + Sum(variantData)), JsAdd(n1, n2))
        se == JsSqrt(JsMul(JsMul(pPooled, JsSub(Int2Js(1), pPooled)),
                           JsAdd(JsDiv(Int2Js(1), n1), JsDiv(Int2Js(1), n2))))
        zScore == JsDiv(JsSub(variantConv, controlConv), se)
        pValue == JsMul(Int2Js(2), JsSub(Int2Js(1), NormalCdf(JsAbs(zScore))))
        zAlpha == Fin(NormalInv(TwoSidedQuantile(confidence)))
        ciControl == WaldInterval(controlConv, zAlpha, n1)
        ciVariant == WaldInterval(variantConv, zAlpha, n2)
        significant == Significant(pValue, confidence)
        conclusion == Conclusion(significant, controlConv, variantConv)
    IN [controlRate |-> controlConv,
        variantRate |-> variantConv,
        relativeImprovement |-> JsDiv(JsSub(variantConv, controlConv), controlConv),
        pValue |-> pValue,
        significant |-> significant,
        confidenceIntervals |-> [control |-> ciControl, variant |-> ciVariant],
        conclusion |-> conclusion]

----------------------------------------------------------------------------
(* sequentialAnalysis *)

\* the receiver after data.reduce(...) of lines 50-51: reduce only reads it
ReduceLeaves(data) == data

\* the receiver after data.splice(0, count): its first `count` elements are gone
SpliceLeaves(data, count) ==
    SubSeq(data, Min(Max(count, 0), Len(data)) + 1, Len(data))

\* the receiver after data.slice(0, end) of lines 104-105: slice copies
SliceLeaves(data, end) == data

\* slice(-end) in place of slice(0, end): the last `end` elements
SliceLast(data, end) ==
    SubSeq(data, Len(data) - Min(Max(end, 0), Len(data)) + 1, Len(data))

\* Array.prototype.slice(0, end): a negative end counts from the end
Slice0(data, end) ==
    LET stop == IF end < 0 THEN Max(Len(data) + end, 0) ELSE Min(end, Len(data))
    IN SubSeq(data, 1, stop)

\* const currentSize = Math.min(controlData.length, variantData.length)
CurrentSize(controlData, variantData) == Min(Len(controlData), Len(variantData))

\* the loop test with < in place of <=
LoopTestStrict(sz, currentSize) == sz < currentSize

\* the loop test of line 103: size <= currentSize
LoopTest(sz, currentSize) == sz <= currentSize

\* the body of the loop without the two slices: the whole arrays are analysed
CheckpointWhole(controlData, variantData, sz, confidence) ==
    LET result == analyzeResults(controlData, variantData, confidence)
    IN [sampleSize |-> sz,
        pValue |-> result.pValue,
        relativeImprovement |-> result.relativeImprovement]

\* the body of the loop, lines 104-112: the checkpoint pushed for `sz`
Checkpoint(controlData, variantData, sz, confidence) ==
    LET controlSample == Slice0(controlData, sz)
        variantSample == Slice0(variantData, sz)
        result == analyzeResults(controlSample, variantSample, confidence)
    IN [sampleSize |-> sz,
        pValue |-> result.pValue,
        relativeImprovement |-> result.relativeImprovement]

RECURSIVE SequentialLoop(_, _, _, _, _, _)
\* the loop of lines 103-113 from `sz` on, `acc` the checkpoints pushed so far
SequentialLoop(controlData, variantData, minSampleSize, confidence, sz, acc) ==
    IF LoopTest(sz, CurrentSize(controlData, variantData))
    THEN SequentialLoop(controlData, variantData, minSampleSize, confidence,
                        sz + minSampleSize,
                        Append(acc, Checkpoint(controlData, variantData, sz,
                                               confidence)))
    ELSE acc

\* the array returned by a call whose loop ends (minSampleSize >= 1)
sequentialAnalysis(controlData, variantData, minSampleSize, confidence) ==
    SequentialLoop(controlData, variantData, minSampleSize, confidence,
                   minSampleSize, <<>>)

----------------------------------------------------------------------------
(* The caller: arguments on small grids *)

BaselineRates == {-10, 0, 10, 50, 80, 90, 100, 110}
Mdes == {-1, 0, 1, 4, 10, 19, 20, 21}
Confidences == {70, 80, 90, 95, 100, 110}
Powers == {70, 80, 90, 100}

\* confidence levels handed to analyzeResults and sequentialAnalysis
AnalysisConfidences == {85, 90, 95, 99}

NoArgs == [baselineRate |-> 0, mde |-> 0, confidence |-> 0, power |-> 0,
           controlData |-> <<>>, variantData |-> <<>>, minSampleSize |-> 0]

\* every sequence of 0/1 observations of length 0 .. MaxLen
Observations == UNION {[1..n -> {0, 1}] : n \in 0..MaxLen}

\* the checkpoint sizes a caller passes, non-positive ones included
MinSampleSizes == -1..MaxLen

\* the argument lists a caller can pass, per function
ParamArgs ==
    {[NoArgs EXCEPT !.baselineRate = b, !.mde = m, !.confidence = c, !.power = p] :
        b \in BaselineRates, m \in Mdes, c \in Confidences, p \in Powers}

ShortAnalyzeArgs ==
    {[NoArgs EXCEPT !.controlData = cd, !.variantData = vd, !.confidence = c] :
        cd \in Observations, vd \in Observations, c \in AnalysisConfidences}

\* the sequences of LongRun zeros and of LongRun ones
Zeros(n) == [i \in 1..n |-> 0]
Ones(n) == [i \in 1..n |-> 1]
LongObservations == {Zeros(LongRun), Ones(LongRun)}

LongAnalyzeArgs ==
    {[NoArgs EXCEPT !.controlData = cd, !.variantData = vd, !.confidence = c] :
        cd \in LongObservations, vd \in LongObservations,
        c \in AnalysisConfidences}

AnalyzeArgs == ShortAnalyzeArgs \cup LongAnalyzeArgs

SequentialArgs ==
    {[a EXCEPT !.minSampleSize = k] : a \in ShortAnalyzeArgs, k \in MinSampleSizes}

Undefined == "undefined"

\* the errors object {} with no key set
NoErrors == [baselineRate |-> Undefined, mde |-> Undefined,
             confidence |-> Undefined, power |-> Undefined, form |-> Undefined]

\* useState({baselineRate: 0.1, mde: 0.05, confidence: 0.95, power: 0.8})
DefaultParams ==
    [baselineRate |-> 10, mde |-> 1, confidence |-> 95, power |-> 80]

\* the initial values of the useState cells, no timer pending
UiInit ==
    /\ params = DefaultParams
    /\ sampleSize = 0
    /\ uiResults = <<>>
    /\ sequentialData = <<>>
    /\ activeTab = "setup"
    /\ errors = NoErrors
    /\ isCalculating = FALSE
    /\ isRunningTest = FALSE
    /\ isLoadingResults = FALSE
    /\ timers = <<>>

\* the state before the call: the function to call and its arguments are chosen
Init ==
    /\ UiInit
    /\ \/ /\ op \in {"validateInputs", "statistics.validateInputs",
                      "calculateSampleSize"}
          /\ args \in ParamArgs
       \/ op = "analyzeResults" /\ args \in AnalyzeArgs
       \/ op = "sequentialAnalysis" /\ args \in SequentialArgs
    /\ ret = [kind |-> "none", value |-> Null]
    /\ size = 0
    /\ results = <<>>

Pending(fn) == op = fn /\ ret.kind = "none"

CallValidateInputs ==
    /\ Pending("validateInputs")
    /\ ret' = Return(validateInputs(args.baselineRate, args.mde,
                                    args.confidence, args.power))
    /\ UNCHANGED <<op, args, size, results>>
    /\ UNCHANGED uiVars

\* the same arguments handed to validateInputs of src/unnamed/part_000
CallStatisticsValidateInputs ==
    /\ Pending("statistics.validateInputs")
    /\ ret' = Return(statisticsValidateInputs(args.baselineRate, args.mde,
                                              args.confidence, args.power))
    /\ UNCHANGED <<op, args, size, results>>
    /\ UNCHANGED uiVars

CallCalculateSampleSize ==
    /\ Pending("calculateSampleSize")
    /\ ret' = calculateSampleSize(args.baselineRate, args.mde,
                                  args.confidence, args.power)
    /\ UNCHANGED <<op, args, size, results>>
    /\ UNCHANGED uiVars

CallAnalyzeResults ==
    /\ Pending("analyzeResults")
    /\ ret' = Return(analyzeResults(args.controlData, args.variantData,
                                    args.confidence))
    /\ args' = [args EXCEPT !.controlData = ReduceLeaves(@),
                            !.variantData = ReduceLeaves(@)]
    /\ UNCHANGED <<op, size, results>>
    /\ UNCHANGED uiVars

\* lines 100-103: results = [], the loop starts with size = minSampleSize
CallSequentialAnalysis ==
    /\ Pending("sequentialAnalysis")
    /\ ret' = [kind |-> "running", value |-> Null]
    /\ size' = args.minSampleSize
    /\ results' = <<>>
    /\ UNCHANGED <<op, args>>
    /\ UNCHANGED uiVars

\* one evaluation of the loop test, then the body (lines 104-112 and
\* size += minSampleSize) or the return of line 115
SequentialStep ==
    /\ op = "sequentialAnalysis"
    /\ ret.kind = "running"
    /\ Len(results) < MaxIter
    /\ IF LoopTest(size, CurrentSize(args.controlData, args.variantData))
       THEN /\ results' = Append(results,
                                 Checkpoint(args.controlData, args.variantData,
                                            size, args.confidence))
            /\ size' = size + args.minSampleSize
            /\ args' = [args EXCEPT
                          !.controlData = ReduceLeaves(SliceLeaves(@, size)),
                          !.variantData = ReduceLeaves(SliceLeaves(@, size))]
            /\ UNCHANGED ret
       ELSE /\ ret' = Return(results)
            /\ UNCHANGED <<size, results, args>>
    /\ UNCHANGED op
    /\ UNCHANGED uiVars

\* the caller, once an analysis has returned, calls analyzeResults or
\* sequentialAnalysis again on the two arrays it holds
CallAgain ==
    /\ op \in {"analyzeResults", "sequentialAnalysis"}
    /\ ret.kind = "return"
    /\ \E fn \in {"analyzeResults", "sequentialAnalysis"} :
          /\ op' = fn
          /\ args' \in {a \in (IF fn = "analyzeResults" THEN AnalyzeArgs
                                 ELSE SequentialArgs) :
                            /\ a.controlData = args.controlData
                            /\ a.variantData = args.variantData}
    /\ ret' = [kind |-> "none", value |-> Null]
    /\ size' = 0
    /\ results' = <<>>
    /\ UNCHANGED uiVars

Next ==
    \/ CallValidateInputs
    \/ CallStatisticsValidateInputs
    \/ CallCalculateSampleSize
    \/ CallAnalyzeResults
    \/ CallSequentialAnalysis
    \/ SequentialStep
    \/ CallAgain

Spec == Init /\ [][Next]_vars

----------------------------------------------------------------------------
(* The component ABTestingFramework of src/unnamed/part_001.  Under SpecUI   *)
(* the engine variables hold the sequentialAnalysis call made by runTest.   *)

\* abTestingUtils.ts lines 3-22, baselineRate in hundredths, mde in twentieths
useCases == <<[baselineRate |-> 5, mde |-> 4],
              [baselineRate |-> 10, mde |-> 3],
              [baselineRate |-> 22, mde |-> 2]>>

MsgNotANumber == "Please enter a valid number"
MsgArrayLength == "Invalid array length"

Fields == {"baselineRate", "mde", "confidence", "power"}

\* the numbers parseFloat makes of the texts typed into the input `name`
TypedValues(name) ==
    CASE name = "baselineRate" -> {70}
      [] name = "mde" -> {10, 19}
      [] name = "confidence" -> {95}
      [] name = "power" -> {90}

\* the inputs into which a text that is not a number is typed as well
TextFields == {"baselineRate"}

\* runTest is inside a sequentialAnalysis call that does not return (the loop
\* of the call is followed under Spec): the one JavaScript thread runs no
\* other handler
Blocked == ret.kind = "running"

\* lines 113-124
handleInputChange ==
    /\ ~Blocked
    /\ activeTab = "setup"
    /\ \E name \in Fields :
          \* isNaN(numValue): the text was empty or not a number
          \/ /\ name \in TextFields
             /\ errors' = [errors EXCEPT ![name] = MsgNotANumber]
             /\ UNCHANGED params
          \/ \E numValue \in TypedValues(name) :
                /\ params' = [params EXCEPT ![name] = numValue]
                /\ errors' = [errors EXCEPT ![name] = Null]
    /\ UNCHANGED <<sampleSize, uiResults, sequentialData, activeTab,
                   isCalculating, isRunningTest, isLoadingResults, timers>>
    /\ UNCHANGED engineVars

\* the entries of the use-case list that get selected (indices from 1)
SelectedUseCases == {2}

\* lines 126-132
handleUseCaseSelect ==
    /\ ~Blocked
    /\ activeTab = "setup"
    /\ \E i \in SelectedUseCases :
          params' = [params EXCEPT !.baselineRate = useCases[i].baselineRate,
                                   !.mde = useCases[i].mde]
    /\ UNCHANGED <<sampleSize, uiResults, sequentialData, activeTab, errors,
                   isCalculating, isRunningTest, isLoadingResults, timers>>
    /\ UNCHANGED engineVars

\* line 212: a click on one of the three tab triggers
setActiveTab ==
    /\ ~Blocked
    /\ \E tab \in {"setup", "run", "results"} : tab # activeTab /\ activeTab' = tab
    /\ UNCHANGED <<params, sampleSize, uiResults, sequentialData, errors,
                   isCalculating, isRunningTest, isLoadingResults, timers>>
    /\ UNCHANGED engineVars

\* a validateForm that lets every parameter set pass
validateFormUnchecked(p) == TRUE

\* lines 134-142, the value returned: true when validateInputs found no error
validateForm(p) ==
    validateInputs(p.baselineRate, p.mde, p.confidence, p.power) = Null

\* lines 144-149 with validateForm (134-142): the click on Calculate, up to
\* the setTimeout; the callback keeps the params of this render
calculateSize ==
    /\ ~Blocked
    /\ activeTab = "setup"
    /\ ~isCalculating
    /\ LET validationError == validateInputs(params.baselineRate, params.mde,
                                             params.confidence, params.power)
       IN IF ~validateForm(params)
          THEN /\ errors' = [NoErrors EXCEPT !.form = validationError]
               /\ UNCHANGED <<isCalculating, timers>>
          ELSE /\ errors' = NoErrors
               /\ isCalculating' = TRUE
               /\ timers' = Append(timers, params)
    /\ UNCHANGED <<params, sampleSize, uiResults, sequentialData, activeTab,
                   isRunningTest, isLoadingResults>>
    /\ UNCHANGED engineVars

\* lines 149-159: the callback of the timer, one second later
calculateSizeTimeout ==
    /\ ~Blocked
    /\ timers # <<>>
    /\ LET captured == Head(timers)
           r == calculateSampleSize(captured.baselineRate, captured.mde,
                                    captured.confidence, captured.power)
       IN IF r.kind = "return"
          THEN /\ sampleSize' = r.value.v
               /\ activeTab' = "run"
               /\ UNCHANGED errors
          ELSE /\ errors' = [NoErrors EXCEPT !.form = r.value]
               /\ UNCHANGED <<sampleSize, activeTab>>
    /\ isCalculating' = FALSE
    /\ timers' = Tail(timers)
    /\ UNCHANGED <<params, uiResults, sequentialData, isRunningTest,
                   isLoadingResults>>
    /\ UNCHANGED engineVars

\* the sequence 1, 0, 1, 0, ... of length n
Alternating(n) == [i \in 1..n |-> i % 2]

\* lines 168-173: the arrays Array(n).fill(0).map(() => Math.random() < t ? 1 : 0)
\* can come out as, t ranging over [0.95 * rate, 1.05 * rate) and `rate` given
\* as the fraction num / den: a 1 needs t > 0, a 0 needs t < 1.  Where both can
\* occur the alternating sequence stands for all the arrays.
Samples(n, num, den) ==
    LET canBeOne == num > 0
        canBeZero == 95 * num < 100 * den
    IN {d \in {Zeros(n), Ones(n), Alternating(n)} :
          /\ \A i \in 1..n : IF d[i] = 1 THEN canBeOne ELSE canBeZero
          /\ (canBeOne /\ canBeZero) => d = Alternating(n)}

\* typeof x === 'number' holds for NaN and Infinity as well
IsNumber(x) == x.t \in {"fin", "nan", "inf"}

\* lines 37-49
isValidTestResults(r) ==
    /\ IsNumber(r.controlRate) /\ IsNumber(r.variantRate)
    /\ Len(r.confidenceIntervals.control) = 2
    /\ Len(r.confidenceIntervals.variant) = 2
    /\ IsNumber(r.relativeImprovement) /\ IsNumber(r.pValue)
    /\ r.significant \in BOOLEAN
    /\ r.conclusion \in {MsgInconclusive, MsgVariantWins, MsgControlWins}

\* lines 52-59
isValidSequentialAnalysis(data) ==
    \A i \in 1..Len(data) :
        /\ data[i].sampleSize \in Int
        /\ IsNumber(data[i].pValue) /\ IsNumber(data[i].relativeImprovement)

\* lines 162-202: the click on Run Test.  The handler runs to its end in one
\* step, unless its sequentialAnalysis call does not return; then the step
\* ends inside the call, with the updates the setters have queued so far.
runTest ==
    /\ ~Blocked
    /\ activeTab = "run"
    /\ ~isRunningTest
    /\ sampleSize <= MaxSample
    /\ IF sampleSize < 0
       THEN \* Array(sampleSize) throws a RangeError, caught in line 196
            /\ errors' = [NoErrors EXCEPT !.form = MsgArrayLength]
            /\ UNCHANGED <<uiResults, sequentialData, activeTab, isRunningTest,
                           isLoadingResults>>
            /\ UNCHANGED engineVars
       ELSE \E controlData \in Samples(sampleSize, params.baselineRate, RateScale),
               variantData \in Samples(sampleSize,
                                       params.baselineRate * (MdeScale + params.mde),
                                       RateScale * MdeScale) :
              \E testResults \in {analyzeResults(controlData, variantData,
                                                  params.confidence)},
                 checkpointSize \in {sampleSize \div 10} :
                 /\ isValidTestResults(testResults)
                 /\ uiResults' = <<testResults>>
                 /\ op' = "sequentialAnalysis"
                 /\ args' = [NoArgs EXCEPT !.controlData = controlData,
                                           !.variantData = variantData,
                                           !.minSampleSize = checkpointSize,
                                           !.confidence = params.confidence]
                 /\ IF checkpointSize >= 1
                    THEN \E seqAnalysis \in
                              {sequentialAnalysis(controlData, variantData,
                                                  checkpointSize,
                                                  params.confidence)} :
                         /\ isValidSequentialAnalysis(seqAnalysis)
                         /\ ret' = Return(seqAnalysis)
                         /\ results' = seqAnalysis
                         /\ size' = checkpointSize * (Len(seqAnalysis) + 1)
                         /\ sequentialData' = seqAnalysis
                         /\ activeTab' = "results"
                         /\ UNCHANGED <<isRunningTest, isLoadingResults>>
                    ELSE /\ ret' = [kind |-> "running", value |-> <<>>]
                         /\ results' = <<>>
                         /\ size' = checkpointSize
                         /\ isRunningTest' = TRUE
                         /\ isLoadingResults' = TRUE
                         /\ UNCHANGED <<sequentialData, activeTab>>
                 /\ UNCHANGED errors
    /\ UNCHANGED <<params, sampleSize, isCalculating, timers>>

\* the engine and the component start as constructed, nothing called yet
InitUI ==
    /\ UiInit
    /\ op = "none"
    /\ args = NoArgs
    /\ ret = [kind |-> "none", value |-> <<>>]
    /\ size = 0
    /\ results = <<>>

NextUI ==
    \/ handleInputChange
    \/ handleUseCaseSelect
    \/ setActiveTab
    \/ calculateSize
    \/ calculateSizeTimeout
    \/ runTest

SpecUI == InitUI /\ [][NextUI]_vars

\* the browser runs a timer callback that is due; clicks and typing are up
\* to the user
FairSpecUI == SpecUI /\ WF_vars(calculateSizeTimeout)

----------------------------------------------------------------------------
(* The component ABTestingFramework of src/components/ABTestingFramework.tsx *)
(* (the variant with session and tracking).  Its useState cells are the     *)
(* same; setActiveTab and handleUseCaseSelect are the code modelled above.  *)

MsgSizeCalculated == "Invalid sample size calculated"
MsgSampleSize == "Invalid sample size"
MsgResultsFormat == "Invalid test results format"
MsgSequentialFormat == "Invalid sequential analysis format"

\* Number(value) for the texts typed into the input `name`; an empty or
\* unparsable text of a number input arrives as "" and Number("") is 0
TypedValuesTracked(name) ==
    CASE name = "baselineRate" -> {0, 70}
      [] name = "mde" -> {0, 10}
      [] name = "confidence" -> {0, 95}
      [] name = "power" -> {0, 90}

\* the unit of the field `name`: the model's integer for the number 1
Scale(name) == IF name = "mde" THEN MdeScale ELSE RateScale

\* line 144: validateInputs(name, numValue, params, errors) runs the checks of
\* abTestingUtils.ts lines 24-30 with the string `name` as baselineRate,
\* numValue as mde and two objects as confidence and power.  A comparison of
\* a non-numeric string or of an object with a number is false, so only the
\* mde check can fail.
validateInputsOfField(name, numValue) ==
    IF numValue <= 0 \/ numValue >= Scale(name) THEN MsgMde ELSE Null

\* lines 139-152
handleInputChangeTracked ==
    /\ ~Blocked
    /\ activeTab = "setup"
    /\ \E name \in Fields : \E numValue \in TypedValuesTracked(name) :
          LET error == validateInputsOfField(name, numValue)
          IN IF error # Null
             THEN /\ errors' = [errors EXCEPT ![name] = error]
                  /\ UNCHANGED params
             ELSE /\ params' = [params EXCEPT ![name] = numValue]
                  /\ errors' = [errors EXCEPT ![name] = Undefined]
    /\ UNCHANGED <<sampleSize, uiResults, sequentialData, activeTab,
                   isCalculating, isRunningTest, isLoadingResults, timers>>
    /\ UNCHANGED engineVars

\* lines 180-211: validateForm and the calculation run in the click itself
calculateSizeTracked ==
    /\ ~Blocked
    /\ activeTab = "setup"
    /\ ~isCalculating
    /\ LET validationError == validateInputs(params.baselineRate, params.mde,
                                             params.confidence, params.power)
           r == calculateSampleSize(params.baselineRate, params.mde,
                                    params.confidence, params.power)
       IN IF validationError # Null
          THEN /\ errors' = [NoErrors EXCEPT !.form = validationError]
               /\ UNCHANGED <<sampleSize, activeTab>>
          ELSE IF r.kind = "throw"
          THEN /\ errors' = [NoErrors EXCEPT !.form = r.value]
               /\ UNCHANGED <<sampleSize, activeTab>>
          ELSE IF r.value.v <= 0
          THEN /\ errors' = [NoErrors EXCEPT !.form = MsgSizeCalculated]
               /\ UNCHANGED <<sampleSize, activeTab>>
          ELSE /\ errors' = NoErrors
               /\ sampleSize' = r.value.v
               /\ activeTab' = "run"
    /\ UNCHANGED <<params, uiResults, sequentialData, isCalculating,
                   isRunningTest, isLoadingResults, timers>>
    /\ UNCHANGED engineVars

\* lines 32-39: the shape check asks for a numeric field sampleSize
isValidTestResultsTracked(r) ==
    /\ "sampleSize" \in DOMAIN r
    /\ "pValue" \in DOMAIN r /\ IsNumber(r.pValue)
    /\ "relativeImprovement" \in DOMAIN r /\ IsNumber(r.relativeImprovement)

\* lines 213-251: the click on Run Test.  The one await is on arrays that are
\* already built, so no other handler runs before the handler has finished.
runTestTracked ==
    /\ ~Blocked
    /\ activeTab = "run"
    /\ ~isRunningTest
    /\ sampleSize <= MaxSample
    /\ IF sampleSize <= 0
       THEN /\ errors' = [NoErrors EXCEPT !.form = MsgSampleSize]
            /\ UNCHANGED <<uiResults, sequentialData, activeTab, isRunningTest,
                           isLoadingResults>>
            /\ UNCHANGED engineVars
       ELSE \E controlData \in Samples(sampleSize, params.baselineRate, RateScale),
               variantData \in Samples(sampleSize,
                                       params.baselineRate * (MdeScale + params.mde),
                                       RateScale * MdeScale) :
              \E testResults \in {analyzeResults(controlData, variantData,
                                                  params.confidence)},
                 checkpointSize \in {sampleSize \div 10} :
                 IF ~isValidTestResultsTracked(testResults)
                 THEN /\ errors' = [NoErrors EXCEPT !.form = MsgResultsFormat]
                      /\ UNCHANGED <<uiResults, sequentialData, activeTab,
                                     isRunningTest, isLoadingResults>>
                      /\ UNCHANGED engineVars
                 ELSE /\ uiResults' = <<testResults>>
                      /\ op' = "sequentialAnalysis"
                      /\ args' = [NoArgs EXCEPT !.controlData = controlData,
                                                !.variantData = variantData,
                                                !.minSampleSize = checkpointSize,
                                                !.confidence = params.confidence]
                      /\ IF checkpointSize >= 1
                         THEN \E seqAnalysis \in
                                   {sequentialAnalysis(controlData, variantData,
                                                       checkpointSize,
                                                       params.confidence)} :
                              /\ ret' = Return(seqAnalysis)
                              /\ results' = seqAnalysis
                              /\ size' = checkpointSize * (Len(seqAnalysis) + 1)
                              /\ IF isValidSequentialAnalysis(seqAnalysis)
                                 THEN /\ sequentialData' = seqAnalysis
                                      /\ activeTab' = "results"
                                      /\ UNCHANGED errors
                                 ELSE /\ errors' = [NoErrors EXCEPT
                                                      !.form = MsgSequentialFormat]
                                      /\ UNCHANGED <<sequentialData, activeTab>>
                              /\ UNCHANGED <<isRunningTest, isLoadingResults>>
                         ELSE /\ ret' = [kind |-> "running", value |-> <<>>]
                              /\ results' = <<>>
                              /\ size' = checkpointSize
                              /\ isRunningTest' = TRUE
                              /\ isLoadingResults' = TRUE
                              /\ UNCHANGED <<sequentialData, activeTab, errors>>
    /\ UNCHANGED <<params, sampleSize, isCalculating, timers>>

NextTracked ==
    \/ handleInputChangeTracked
    \/ handleUseCaseSelect
    \/ setActiveTab
    \/ calculateSizeTracked
    \/ runTestTracked

SpecTracked == InitUI /\ [][NextTracked]_vars

----------------------------------------------------------------------------
(* The component ABTestingFramework of src/ABTestingFramework.tsx: the
   variant on one page, which imports the statistics module of
   src/unnamed/part_000 *)

MsgNoDifference == "The test did not show a statistically significant difference"
MsgDifference == "The test showed a statistically significant difference with"

\* part_000 lines 31-32: jstat.normal.inv(confidence, rate, sqrt(rate * (1 - rate) / n)),
\* one number, the `confidence` quantile of the normal law around the rate
ScalarBound(rate, confidence, n) ==
    JsAdd(rate, JsMul(Fin(NormalInv(10 * confidence)),
                      JsSqrt(JsDiv(JsMul(rate, JsSub(Int2Js(1), rate)), n))))

\* part_000 lines 17-45: no conclusion, one number per arm as the interval
statisticsAnalyzeResults(controlData, variantData, confidence) ==
    LET controlConv == JsDiv(Int2Js(Sum(controlData)), Int2Js(Len(controlData)))
        variantConv == JsDiv(Int2Js(Sum(variantData)), Int2Js(Len(variantData)))
        n1 == Int2Js(Len(controlData))
        n2 == Int2Js(Len(variantData))
        pPooled == JsDiv(Int2Js(Sum(controlData) + Sum(variantData)), JsAdd(n1, n2))
        se == JsSqrt(JsMul(JsMul(pPooled, JsSub(Int2Js(1), pPooled)),
                           JsAdd(JsDiv(Int2Js(1), n1), JsDiv(Int2Js(1), n2))))
        zScore == JsDiv(JsSub(variantConv, controlConv), se)
        pValue == JsMul(Int2Js(2), JsSub(Int2Js(1), NormalCdf(JsAbs(zScore))))
    IN [controlRate |-> controlConv,
        variantRate |-> variantConv,
        relativeImprovement |-> JsDiv(JsSub(variantConv, controlConv), controlConv),
        pValue |-> pValue,
        significant |-> Significant(pValue, confidence),
        confidenceIntervals |->
            [control |-> ScalarBound(controlConv, confidence, n1),
             variant |-> ScalarBound(variantConv, confidence, n2)]]

\* part_000 lines 52-60: the checkpoint pushed for `sz`
statisticsCheckpoint(controlData, variantData, sz, confidence) ==
    LET result == statisticsAnalyzeResults(Slice0(controlData, sz),
                                           Slice0(variantData, sz), confidence)
    IN [sampleSize |-> sz,
        pValue |-> result.pValue,
        relativeImprovement |-> result.relativeImprovement]

RECURSIVE statisticsSequentialLoop(_, _, _, _, _, _)
\* part_000 lines 51-61 from `sz` on, `acc` the checkpoints pushed so far
statisticsSequentialLoop(controlData, variantData, minSampleSize, confidence, sz, acc) ==
    IF sz <= CurrentSize(controlData, variantData)
    THEN statisticsSequentialLoop(controlData, variantData, minSampleSize,
                                  confidence, sz + minSampleSize,
                                  Append(acc, statisticsCheckpoint(
                                      controlData, variantData, sz, confidence)))
    ELSE acc

\* part_000 lines 47-64, for a call whose loop ends (minSampleSize >= 1)
statisticsSequentialAnalysis(controlData, variantData, minSampleSize, confidence) ==
    statisticsSequentialLoop(controlData, variantData, minSampleSize, confidence,
                             minSampleSize, <<>>)

\* the numbers parseFloat makes of the texts typed into the input `name`
TypedValuesRoot(name) ==
    CASE name = "baselineRate" -> {70, 150}
      [] name = "mde" -> {10, 30}
      [] name = "confidence" -> {50, 95}
      [] name = "power" -> {50, 90}

\* the typed hundredths or twentieths as hundredths
AsValue(name, numValue) == numValue * (RateScale \div Scale(name))

\* lines 46-63: the number typed is checked as the first argument of
\* validateInputs, whichever input it was typed into
handleInputChangeRoot ==
    /\ ~Blocked
    /\ \E name \in Fields :
          \* isNaN(numValue): the text was empty or not a number
          \/ /\ name \in TextFields
             /\ errors' = [errors EXCEPT ![name] = MsgNotANumber]
             /\ UNCHANGED params
          \/ \E numValue \in TypedValuesRoot(name) :
               \E error \in {statisticsValidateInputs(AsValue(name, numValue),
                                                      params.mde, params.confidence,
                                                      params.power)} :
                  IF error # Null
                  THEN /\ errors' = [errors EXCEPT ![name] = error]
                       /\ UNCHANGED params
                  ELSE /\ params' = [params EXCEPT ![name] = numValue]
                       /\ errors' = [errors EXCEPT ![name] = Undefined]
    /\ UNCHANGED <<sampleSize, uiResults, sequentialData, activeTab,
                   isCalculating, isRunningTest, isLoadingResults, timers>>
    /\ UNCHANGED engineVars

\* lines 65-68: the sample size of part_000 lines 3-15, which validates nothing
calculateSizeRoot ==
    /\ ~Blocked
    /\ sampleSize' = SampleSizeFormula(params.baselineRate, params.mde,
                                       params.confidence, params.power).v
    /\ UNCHANGED <<params, uiResults, sequentialData, activeTab, errors,
                   isCalculating, isRunningTest, isLoadingResults, timers>>
    /\ UNCHANGED engineVars

\* lines 78-81: the arrays Array(n).fill(0).map(() => Math.random() < rate ? 1 : 0)
\* can come out as, `rate` given as the fraction num / den.  Where both a 0
\* and a 1 can occur the alternating sequence stands for all the arrays.
SamplesRoot(n, num, den) ==
    LET canBeOne == num > 0
        canBeZero == num < den
    IN {d \in {Zeros(n), Ones(n), Alternating(n)} :
          /\ \A i \in 1..n : IF d[i] = 1 THEN canBeOne ELSE canBeZero
          /\ (canBeOne /\ canBeZero) => d = Alternating(n)}

\* lines 84-89: the record with the conclusion added, the percentage of the
\* text kept as a number
WithConclusion(rawResults) ==
    [controlRate |-> rawResults.controlRate,
     variantRate |-> rawResults.variantRate,
     relativeImprovement |-> rawResults.relativeImprovement,
     pValue |-> rawResults.pValue,
     significant |-> rawResults.significant,
     confidenceIntervals |-> rawResults.confidenceIntervals,
     conclusion |-> IF rawResults.significant
                    THEN <<MsgDifference,
                           JsMul(rawResults.relativeImprovement, Int2Js(100))>>
                    ELSE <<MsgNoDifference>>]

\* lines 70-108: the click on Run Test, a button rendered while sampleSize > 0
\* (line 137).  The handler runs to its end in one step, unless its
\* sequentialAnalysis call does not return.
runTestRoot ==
    /\ ~Blocked
    /\ sampleSize > 0
    /\ sampleSize <= MaxSample
    /\ IF sampleSize <= 0
       THEN /\ errors' = [NoErrors EXCEPT !.form = MsgSampleSize]
            /\ UNCHANGED <<uiResults, sequentialData, activeTab, isRunningTest,
                           isLoadingResults>>
            /\ UNCHANGED engineVars
       ELSE \E controlData \in SamplesRoot(sampleSize, params.baselineRate, RateScale),
               variantData \in SamplesRoot(sampleSize,
                                           params.baselineRate * (MdeScale + params.mde),
                                           RateScale * MdeScale) :
              \E rawResults \in {statisticsAnalyzeResults(controlData, variantData,
                                                          params.confidence)},
                 checkpointSize \in {sampleSize \div 10} :
                 /\ uiResults' = <<WithConclusion(rawResults)>>
                 /\ op' = "statistics.sequentialAnalysis"
                 /\ args' = [NoArgs EXCEPT !.controlData = controlData,
                                           !.variantData = variantData,
                                           !.minSampleSize = checkpointSize,
                                           !.confidence = params.confidence]
                 /\ IF checkpointSize >= 1
                    THEN \E seqAnalysis \in
                              {statisticsSequentialAnalysis(controlData, variantData,
                                                            checkpointSize,
                                                            params.confidence)} :
                         /\ ret' = Return(seqAnalysis)
                         /\ results' = seqAnalysis
                         /\ size' = checkpointSize * (Len(seqAnalysis) + 1)
                         /\ sequentialData' = seqAnalysis
                         /\ activeTab' = "results"
                         /\ UNCHANGED <<isRunningTest, isLoadingResults>>
                    ELSE /\ ret' = [kind |-> "running", value |-> <<>>]
                         /\ results' = <<>>
                         /\ size' = checkpointSize
                         /\ isRunningTest' = TRUE
                         /\ isLoadingResults' = TRUE
                         /\ UNCHANGED <<sequentialData, activeTab>>
                 /\ UNCHANGED errors
    /\ UNCHANGED <<params, sampleSize, isCalculating, timers>>

\* lines 32-44: the initial values of the useState cells; this variant has no
\* isCalculating cell and no timer, which stay as they are
InitRoot ==
    /\ params = DefaultParams
    /\ sampleSize = 0
    /\ uiResults = <<>>
    /\ sequentialData = <<>>
    /\ activeTab = "parameters"
    /\ errors = NoErrors
    /\ isCalculating = FALSE
    /\ isRunningTest = FALSE
    /\ isLoadingResults = FALSE
    /\ timers = <<>>
    /\ op = "none"
    /\ args = NoArgs
    /\ ret = [kind |-> "none", value |-> <<>>]
    /\ size = 0
    /\ results = <<>>

NextRoot ==
    \/ handleInputChangeRoot
    \/ calculateSizeRoot
    \/ runTestRoot

SpecRoot == InitRoot /\ [][NextRoot]_vars

----------------------------------------------------------------------------
(* Properties *)

Called(fn) == op = fn /\ ret.kind # "none"
Returned(fn) == op = fn /\ ret.kind = "return"

\* the documented open intervals, stated on the arguments of the call
BaselineInRange == 0 < args.baselineRate /\ args.baselineRate < RateScale
MdeInRange == 0 < args.mde /\ args.mde < MdeScale
ConfidenceInRange == 80 < args.confidence /\ args.confidence < RateScale
PowerInRange == 80 < args.power /\ args.power < RateScale
AllInRange == BaselineInRange /\ MdeInRange /\ ConfidenceInRange /\ PowerInRange

\* C1: validateInputs reports the first failing check in the order
\* baselineRate, mde, confidence, power, and returns null exactly when all
\* four checks pass.
C1_FirstFailingCheck ==
    Returned("validateInputs") =>
        /\ ~BaselineInRange => ret.value = MsgBaseline
        /\ BaselineInRange /\ ~MdeInRange => ret.value = MsgMde
        /\ BaselineInRange /\ MdeInRange /\ ~ConfidenceInRange
              => ret.value = MsgConfidence
        /\ BaselineInRange /\ MdeInRange /\ ConfidenceInRange /\ ~PowerInRange
              => ret.value = MsgPower
        /\ AllInRange <=> ret.value = Null

\* C1 witness: mde, confidence and power are all out of range, baselineRate
\* is not, and the message returned is the one of mde.
C1_Witness ==
    /\ Returned("validateInputs")
    /\ BaselineInRange /\ ~MdeInRange /\ ~ConfidenceInRange /\ ~PowerInRange
    /\ ret.value = MsgMde

C3_DefaultsAccepted ==
    (/\ Returned("validateInputs")
     /\ args.baselineRate = 10 /\ args.mde = 1
     /\ args.confidence = 95 /\ args.power = 80)
        => ret.value = Null

\* the target rate p2 = baselineRate * (1 + mde) is >= 1
TargetRateAtLeastOne ==
    args.baselineRate * (MdeScale + args.mde) >= RateScale * MdeScale

\* C4: calculateSampleSize raises an error, and returns no number, when
\* mde = 0 or when the target rate p2 = baselineRate * (1 + mde) is >= 1.
C4_DomainErrorRaised ==
    (Called("calculateSampleSize") /\ (args.mde = 0 \/ TargetRateAtLeastOne))
        => ret.kind = "throw"

\* C5: for parameters within the documented bounds calculateSampleSize
\* returns a positive integer equal to the closed form
\* ceil(2*pbar*(1-pbar)*(zAlpha+zBeta)^2 / (p2-p1)^2).
C5_PositiveClosedForm ==
    (Called("calculateSampleSize") /\ AllInRange) =>
        /\ ret.kind = "return"
        /\ IsFin(ret.value)
        /\ ret.value.v >= 1
        /\ ret.value = SampleSizeFormula(args.baselineRate, args.mde,
                                         args.confidence, args.power)

\* C6: calculateSampleSize validates before it computes: on every input
\* validateInputs rejects it throws an Error carrying exactly the message of
\* validateInputs, and it returns a number only on inputs validateInputs
\* accepts.
C6_ValidatesBeforeComputing ==
    Called("calculateSampleSize") =>
        LET message == validateInputs(args.baselineRate, args.mde,
                                      args.confidence, args.power)
        IN /\ message # Null => ret = Throw(message)
           /\ ret.kind = "return" => message = Null

\* C6 witness: a call with baselineRate out of range and mde in range threw
\* the message of baselineRate.
C6_Witness ==
    /\ Called("calculateSampleSize")
    /\ ~BaselineInRange /\ MdeInRange
    /\ ret = Throw(MsgBaseline)

\* C7: with a positive integer k and N = min(len(control), len(variant)),
\* sequentialAnalysis returns exactly floor(N / k) checkpoints whose
\* sampleSize values are k, 2k, 3k, ...; a trailing remainder yields none.
C7_CheckpointSizes ==
    (Returned("sequentialAnalysis") /\ args.minSampleSize >= 1) =>
        LET k == args.minSampleSize
            N == Min(Len(args.controlData), Len(args.variantData))
        IN /\ Len(ret.value) = N \div k
           /\ \A i \in 1..Len(ret.value) : ret.value[i].sampleSize = i * k
           /\ \A i \in 1..Len(ret.value), j \in 1..Len(ret.value) :
                 i < j => ret.value[i].sampleSize < ret.value[j].sampleSize

\* C7 witness: two sequences of length 3 with k = 2 returned the single
\* checkpoint of size 2 (the remainder of one observation is dropped).
C7_Witness ==
    /\ Returned("sequentialAnalysis")
    /\ args.minSampleSize = 2
    /\ Len(args.controlData) = 3 /\ Len(args.variantData) = 3
    /\ Len(ret.value) = 1
    /\ ret.value[1].sampleSize = 2

\* C8: sequentialAnalysis terminates on every input: with checkpointSize <= 0
\* it fails fast with an error instead of looping, and no call appends more
\* checkpoints than there are observations.
C8_FailsFastOnNonPositive ==
    op = "sequentialAnalysis" =>
        /\ (ret.kind # "none" /\ args.minSampleSize <= 0) => ret.kind = "throw"
        /\ Len(results) <= CurrentSize(args.controlData, args.variantData)

\* C9: analyzeResults with an empty control or variant sequence raises an
\* InvalidInput error and returns no record.
C9_EmptyInputRaises ==
    (Called("analyzeResults")
       /\ (args.controlData = <<>> \/ args.variantData = <<>>))
        => ret.kind = "throw"

\* the pooled rate of the two sequences is 0 or 1
PooledRateDegenerate ==
    LET successes == Sum(args.controlData) + Sum(args.variantData)
    IN successes = 0 \/ successes = Len(args.controlData) + Len(args.variantData)

\* C10: when the pooled rate of two non-empty sequences is 0 or 1 (zero
\* standard error), analyzeResults returns pValue = 1 and significant = false.
C10_ZeroStandardError ==
    (/\ Called("analyzeResults")
     /\ args.controlData # <<>> /\ args.variantData # <<>>
     /\ PooledRateDegenerate)
        => /\ ret.kind = "return"
           /\ ret.value.pValue = Int2Js(1)
           /\ ret.value.significant = FALSE

\* both sequences of the call are non-empty
BothNonEmpty == args.controlData # <<>> /\ args.variantData # <<>>

\* C11: analyzeResults on two non-empty sequences of identical composition
\* (same length, same number of successes; both all-zeros included) yields
\* relativeImprovement = 0, a defined number, and significant = false.
C11_IdenticalComposition ==
    (/\ Called("analyzeResults")
     /\ BothNonEmpty
     /\ Len(args.controlData) = Len(args.variantData)
     /\ Sum(args.controlData) = Sum(args.variantData))
        => /\ ret.kind = "return"
           /\ ret.value.relativeImprovement = Fin(0)
           /\ ret.value.significant = FALSE

\* C12: the conclusion is determined by significant and the two rates:
\* significant is pValue < 1 - confidence; the conclusion is the inconclusive
\* text exactly when significant is false, and otherwise the variant text if
\* variantRate > controlRate and the control text if not.
C12_ConclusionFollowsSignificance ==
    Returned("analyzeResults") =>
        LET r == ret.value
            alpha == JsSub(Int2Js(1), Fin(10 * args.confidence))
        IN /\ r.significant <=> JsLt(r.pValue, alpha)
           /\ r.conclusion = MsgInconclusive <=> ~r.significant
           /\ (r.significant /\ JsLt(r.controlRate, r.variantRate))
                 => r.conclusion = MsgVariantWins
           /\ (r.significant /\ ~JsLt(r.controlRate, r.variantRate))
                 => r.conclusion = MsgControlWins

\* C12 witness: a significant result in which the control rate is the higher
\* one, reported as the control outperforming the variant.
C12_Witness ==
    /\ Returned("analyzeResults")
    /\ ret.value.significant
    /\ JsLt(ret.value.variantRate, ret.value.controlRate)
    /\ ret.value.conclusion = MsgControlWins

\* C13: with a control sequence of n zeros and a variant sequence of n ones
\* (n = LongRun = 100, any confidence in (0.8, 1)) analyzeResults yields
\* significant = true and the conclusion that the variant outperformed.
C13_ZerosAgainstOnes ==
    (/\ Called("analyzeResults")
     /\ args.controlData = Zeros(LongRun)
     /\ args.variantData = Ones(LongRun)
     /\ ConfidenceInRange)
        => /\ ret.kind = "return"
           /\ ret.value.significant = TRUE
           /\ ret.value.conclusion = MsgVariantWins

\* C13 witness: the call on 100 zeros against 100 ones at confidence 0.99
\* has returned a significant result.
C13_Witness ==
    /\ Returned("analyzeResults")
    /\ args.controlData = Zeros(LongRun) /\ args.variantData = Ones(LongRun)
    /\ args.confidence = 99
    /\ ret.value.significant

\* every numeric field of an analyzeResults record is finite
RecordFinite(r) ==
    /\ IsFin(r.controlRate) /\ IsFin(r.variantRate)
    /\ IsFin(r.relativeImprovement) /\ IsFin(r.pValue)
    /\ \A i \in 1..2 : /\ IsFin(r.confidenceIntervals.control[i])
                       /\ IsFin(r.confidenceIntervals.variant[i])

\* C17: for non-empty 0/1 sequences no numeric field of the analyzeResults
\* record is NaN or Infinity, and no checkpoint of sequentialAnalysis holds
\* NaN or Infinity.
C17_NoNaNOrInfinity ==
    /\ (Called("analyzeResults") /\ BothNonEmpty)
          => (ret.kind = "return" => RecordFinite(ret.value))
    /\ (op = "sequentialAnalysis" /\ BothNonEmpty /\ args.minSampleSize >= 1)
          => \A i \in 1..Len(results) :
                IsFin(results[i].pValue) /\ IsFin(results[i].relativeImprovement)

\* the interval [low, high] of one arm brackets `rate`, is symmetric around
\* it, and its half-width is zAlpha * sqrt(rate * (1 - rate) / n)
WaldAround(ci, rate, n, confidence) ==
    LET zAlpha == Fin(NormalInv(TwoSidedQuantile(confidence)))
        half == JsMul(zAlpha,
                      JsSqrt(JsDiv(JsMul(rate, JsSub(Int2Js(1), rate)), Int2Js(n))))
    IN /\ IsFin(ci[1]) /\ IsFin(ci[2]) /\ IsFin(rate)
       /\ ci[1].v <= rate.v /\ rate.v <= ci[2].v
       /\ rate.v - ci[1].v = ci[2].v - rate.v
       /\ ci[2].v - rate.v = half.v

\* C19: for non-empty sequences and confidence in (0.8, 1) each arm's
\* interval [low, high] brackets the arm's rate, is symmetric around it, and
\* has half-width zAlpha * sqrt(rate * (1 - rate) / n) of that arm alone.
C19_WaldIntervals ==
    (Returned("analyzeResults") /\ BothNonEmpty /\ ConfidenceInRange) =>
        /\ WaldAround(ret.value.confidenceIntervals.control, ret.value.controlRate,
                      Len(args.controlData), args.confidence)
        /\ WaldAround(ret.value.confidenceIntervals.variant, ret.value.variantRate,
                      Len(args.variantData), args.confidence)

\* C19 witness: arms of different lengths, the control rate strictly between
\* 0 and 1, with an interval of positive width around it.
C19_Witness ==
    /\ Returned("analyzeResults")
    /\ Len(args.controlData) = 3 /\ Len(args.variantData) = 2
    /\ Sum(args.controlData) = 1
    /\ ret.value.confidenceIntervals.control[1].v < ret.value.controlRate.v
    /\ ret.value.controlRate.v < ret.value.confidenceIntervals.control[2].v

\* the first n elements of a sequence
Prefix(data, n) == SubSeq(data, 1, n)

\* s is an initial segment of t
IsPrefix(s, t) == Len(s) <= Len(t) /\ Prefix(t, Len(s)) = s

\* C15: each checkpoint of sequentialAnalysis with sampleSize s carries exactly
\* the pValue and relativeImprovement that analyzeResults yields on the first
\* s elements of the control and of the variant sequence at the same
\* confidence; the elements beyond s have no influence on it.
C15_CheckpointIsPrefixAnalysis ==
    (op = "sequentialAnalysis" /\ args.minSampleSize >= 1) =>
        \A i \in 1..Len(results) :
            LET s == results[i].sampleSize
                r == analyzeResults(Prefix(args.controlData, s),
                                    Prefix(args.variantData, s), args.confidence)
            IN /\ s <= CurrentSize(args.controlData, args.variantData)
               /\ results[i].pValue = r.pValue
               /\ results[i].relativeImprovement = r.relativeImprovement

\* C15 witness: a returned call whose first checkpoint covers one element of
\* three and differs from what the analysis of the whole sequences gives.
C15_Witness ==
    /\ Returned("sequentialAnalysis")
    /\ args.minSampleSize = 1
    /\ Len(args.controlData) = 3 /\ Len(args.variantData) = 3
    /\ Len(ret.value) = 3
    /\ ret.value[1].relativeImprovement #
          analyzeResults(args.controlData, args.variantData,
                         args.confidence).relativeImprovement

\* C20: checkpoints are stable under appending data: for sequences that
\* extend shorter ones, the checkpoints of the call on the shorter sequences
\* (same minSampleSize, same confidence) are an initial segment of the
\* checkpoints of the call on the extended ones.
C20_StableUnderAppend ==
    (Returned("sequentialAnalysis") /\ args.minSampleSize >= 1) =>
        \A n1 \in 0..Len(args.controlData), n2 \in 0..Len(args.variantData) :
            IsPrefix(sequentialAnalysis(Prefix(args.controlData, n1),
                                        Prefix(args.variantData, n2),
                                        args.minSampleSize, args.confidence),
                     ret.value)

\* C20 witness: a returned call on sequences of length 3 with three
\* checkpoints, where the call on the first two elements of each yields two.
C20_Witness ==
    /\ Returned("sequentialAnalysis")
    /\ args.minSampleSize = 1
    /\ Len(args.controlData) = 3 /\ Len(args.variantData) = 3
    /\ Len(ret.value) = 3
    /\ Len(sequentialAnalysis(Prefix(args.controlData, 2),
                              Prefix(args.variantData, 2),
                              args.minSampleSize, args.confidence)) = 2

\* C18: analyzeResults and sequentialAnalysis are pure: whatever sequence of
\* calls is made, no step of a call changes the control or the variant array
\* (length and every element) the caller passed.
C18_InputsUnchanged ==
    [][/\ args'.controlData = args.controlData
       /\ args'.variantData = args.variantData]_vars

\* C18 witness: a sequentialAnalysis call that took slices at two sizes has
\* returned with both arrays still three elements long.
C18_Witness ==
    /\ Returned("sequentialAnalysis")
    /\ Len(ret.value) >= 2
    /\ Len(args.controlData) = 3 /\ Len(args.variantData) = 3

\* C16: every call the component makes to sequentialAnalysis passes a
\* checkpoint size (Math.floor(sampleSize / 10)) that is an integer greater
\* than 0, for every sampleSize with which runTest reaches the call.
C16_CheckpointSizePositive ==
    op = "sequentialAnalysis" => args.minSampleSize >= 1

\* the position (1..4) of the parameter a validation message is about, 0 for
\* null
Position(msg) ==
    CASE msg \in {MsgBaseline, MsgStatValue} -> 1
      [] msg \in {MsgMde, MsgStatMde} -> 2
      [] msg \in {MsgConfidence, MsgStatConfidence} -> 3
      [] msg \in {MsgPower, MsgStatPower} -> 4
      [] OTHER -> 0

\* no argument of the call sits on an endpoint of its interval
NoEndpoint ==
    /\ args.baselineRate \notin {0, RateScale}
    /\ args.mde \notin {0, MdeScale}
    /\ args.confidence \notin {80, RateScale}
    /\ args.power \notin {80, RateScale}

\* C21: the strict validateInputs of abTestingUtils.ts and the inclusive one
\* of the second statistics module accept and reject the same inputs, and
\* report the same parameter position first, whenever no parameter equals an
\* endpoint of its interval; they differ only on inputs with an endpoint.
C21_ValidatorsAgreeOffEndpoints ==
    /\ Returned("validateInputs") =>
          (Position(ret.value) #
              Position(statisticsValidateInputs(args.baselineRate, args.mde,
                                                args.confidence, args.power))
           => ~NoEndpoint)
    /\ Returned("statistics.validateInputs") =>
          (Position(ret.value) #
              Position(validateInputs(args.baselineRate, args.mde,
                                      args.confidence, args.power))
           => ~NoEndpoint)

\* C21 witness: off the endpoints, with baselineRate and mde in range, the
\* second module has rejected the confidence, the position the strict
\* validateInputs reports as well.
C21_Witness ==
    /\ Returned("statistics.validateInputs")
    /\ NoEndpoint
    /\ ret.value = MsgStatConfidence
    /\ validateInputs(args.baselineRate, args.mde, args.confidence,
                      args.power) = MsgConfidence

\* validateInputs rejects the params held in state
ParamsRejected ==
    validateInputs(params.baselineRate, params.mde, params.confidence,
                   params.power) # Null

\* C22: calculateSize is gated by validation: a click on Calculate with
\* params that validateInputs rejects sets errors to {form: that message},
\* leaves sampleSize, activeTab, results and sequentialData unchanged and
\* schedules no delayed calculation; sampleSize is assigned, together with
\* activeTab = 'run', only by a callback whose params validateInputs accepted.
C22_CalculateGatedByValidation ==
    [][/\ (calculateSize /\ ParamsRejected) =>
             /\ errors' = [NoErrors EXCEPT !.form =
                              validateInputs(params.baselineRate, params.mde,
                                             params.confidence, params.power)]
             /\ UNCHANGED <<sampleSize, activeTab, uiResults, sequentialData,
                            timers, isCalculating>>
       /\ (sampleSize' # sampleSize) =>
             /\ timers # <<>>
             /\ validateInputs(Head(timers).baselineRate, Head(timers).mde,
                               Head(timers).confidence, Head(timers).power) = Null
             /\ activeTab' = "run"]_vars

\* C22 witness: Calculate was clicked with the power still 0.8: the form
\* error is the power message, no callback is pending, sampleSize is still 0.
C22_Witness ==
    /\ errors.form = MsgPower
    /\ params.power = 80
    /\ timers = <<>> /\ ~isCalculating
    /\ sampleSize = 0 /\ activeTab = "setup"

\* C23: every invocation of runTest completes and leaves isRunningTest and
\* isLoadingResults false, whatever the outcome and whatever sampleSize the
\* component holds when Run Test is clicked: isRunningTest = true is never a
\* permanent state.
C23_RunTestCompletes ==
    (isRunningTest \/ isLoadingResults) ~> (~isRunningTest /\ ~isLoadingResults)

\* C24: runTest never analyzes data for a non-positive sample size: when
\* sampleSize <= 0 at the click on Run Test, runTest sets errors.form to an
\* error message, leaves results and sequentialData unchanged and calls
\* neither analyzeResults nor sequentialAnalysis.
C24_NoAnalysisForNonPositive ==
    [][(runTest /\ sampleSize <= 0) =>
          /\ errors'.form \notin {Undefined, Null}
          /\ UNCHANGED <<uiResults, sequentialData>>
          /\ UNCHANGED <<op, args, ret>>]_vars

\* C27: whenever sampleSize is non-zero it equals calculateSampleSize applied
\* to the params currently held in state, under every interleaving of input
\* edits and use-case selections with the delayed calculation callback.
C27_SampleSizeMatchesParams ==
    sampleSize # 0 =>
        calculateSampleSize(params.baselineRate, params.mde, params.confidence,
                            params.power) = Return(Fin(sampleSize))

\* C28: from the initial state, with no field edited, a click on Calculate
\* Sample Size leaves errors.form unset and starts the calculation whose
\* callback sets sampleSize to a value > 0 and activeTab to 'run'.
C28_DefaultsCalculate ==
    [][/\ (calculateSize /\ params = DefaultParams) =>
             /\ errors'.form = Undefined
             /\ timers' = <<DefaultParams>>
       /\ (calculateSizeTimeout /\ Head(timers) = DefaultParams) =>
             /\ sampleSize' > 0
             /\ activeTab' = "run"
             /\ errors'.form = Undefined]_vars

\* C25: in the variant with the shape check on sampleSize, a runTest started
\* with sampleSize >= 10 on valid params succeeds: it ends with results set to
\* the record of analyzeResults, sequentialData set to the checkpoints of
\* sequentialAnalysis, activeTab = 'results' and no errors.form set by the
\* run; isValidTestResults accepts every record analyzeResults returns.
C25_RunTestSucceeds ==
    [][(runTestTracked /\ sampleSize >= 10 /\ ~ParamsRejected) =>
          /\ uiResults' # <<>>
          /\ Len(sequentialData') >= 1
          /\ activeTab' = "results"
          /\ errors' = errors]_vars

\* C26: in the variant on one page, the stored params stay valid: after any
\* sequence of input-change events they are accepted by the inclusive
\* validateInputs(baselineRate, mde, confidence, power), an edit that would
\* make them invalid being rejected with the params unchanged.
C26_StoredParamsValid ==
    statisticsValidateInputs(params.baselineRate, params.mde, params.confidence,
                             params.power) = Null

====
